---- MODULE Spec2Model ----
(***************************************************************************)
(* One run of the "Talk to your Data" pipeline of streamlit_code.py: the   *)
(* uploaded SQLite file is copied to a temporary file, its schema is read, *)
(* the language model is asked for a query, the query is extracted from    *)
(* the reply, validated by executing it, executed again for its rows, and  *)
(* the connection and the temporary file are released.                     *)
(*                                                                         *)
(* Texts are sequences of tokens: a fence of three backticks, the language *)
(* tag, a newline, a space, and words of other text.  A Python Optional is *)
(* None (the empty tuple) or Some(v) (the one-element tuple).              *)
(***************************************************************************)
EXTENDS Integers, Sequences, FiniteSets, TLC

\* ------------------------------------------------------------ bounds
\* Longest reply text, in tokens, that TrimSpec enumerates.
MaxLen == 7
\* Most tables declared in an uploaded database.
MaxTables == 2
\* Most columns declared in one table.
MaxCols == 2
\* Most rows the table orders holds in an uploaded database.
MaxRows == 1

\* ------------------------------------------------------------ values
None == <<>>
Some(v) == <<v>>

\* The fence token stands for the three backticks of a Markdown code fence.
FENCE == "<fence>"
TAG == "sql"
NL == "\n"
SP == " "

\* Statement texts the engine of the model knows; any other text is a syntax error.
SelectOrders == "SELECT * FROM orders"
InsertOrders == "INSERT INTO orders DEFAULT VALUES"
CreateItems == "CREATE TABLE items(id)"
Selekt == "SELEKT *"
Prose == "Here is the query"

Min(S) == CHOOSE x \in S : \A y \in S : x <= y

\* ------------------------------------------------------------ trim_sql_query
IsWhitespace(t) == t \in {NL, SP}

RECURSIVE lstrip(_)
lstrip(s) == IF s # <<>> /\ IsWhitespace(Head(s)) THEN lstrip(Tail(s)) ELSE s

RECURSIVE rstrip(_)
rstrip(s) ==
    IF s # <<>> /\ IsWhitespace(s[Len(s)]) THEN rstrip(SubSeq(s, 1, Len(s) - 1)) ELSE s

\* str.strip(): whitespace removed from both ends, the inside kept as it is.
strip(s) == rstrip(lstrip(s))

\* The pattern FENCE sql NL (.*?) NL FENCE matches from position i with the group
\* ending right before the newline at position j.
MatchAt(s, i, j) ==
    /\ i >= 1 /\ i + 3 <= j /\ j + 1 <= Len(s)
    /\ s[i] = FENCE /\ s[i + 1] = TAG /\ s[i + 2] = NL
    /\ s[j] = NL /\ s[j + 1] = FENCE

\* re.search with re.DOTALL: the leftmost start that has a match, and for it
\* the shortest group (.*? is lazy); the result is the group or None.
re_search(s) ==
    LET starts == {i \in 1..Len(s) : \E j \in 1..Len(s) : MatchAt(s, i, j)}
    IN  IF starts = {} THEN None
        ELSE LET i == Min(starts)
                 j == Min({k \in 1..Len(s) : MatchAt(s, i, k)})
             IN  Some(SubSeq(s, i + 3, j - 1))

trim_sql_query(response_text) ==
    LET match == re_search(response_text)
    IN  IF match # None THEN Some(strip(match[1])) ELSE None

\* ------------------------------------------------------------ the database
ColNames == <<"id", "customer", "amount", "note">>
ColName(i) == IF i <= Len(ColNames) THEN ColNames[i] ELSE "extra"

\* The column declarations of a table, in declaration order.
ColumnDecls(n) ==
    [i \in 1..n |-> [name |-> ColName(i),
                     type |-> IF i = 1 THEN "INTEGER" ELSE "TEXT",
                     notnull |-> 0,
                     dflt |-> "NULL",
                     pk |-> IF i = 1 THEN 1 ELSE 0]]

TableNames == {"orders", "items", "my table"}

TableDecls ==
    {[name |-> n, cols |-> ColumnDecls(k), autoinc |-> a] :
        n \in TableNames, k \in 1..MaxCols, a \in BOOLEAN}

Schemas ==
    {s \in UNION {[1..n -> TableDecls] : n \in 0..MaxTables} :
        \A i, j \in DOMAIN s : i # j => s[i].name # s[j].name}

HasTable(d, n) == \E i \in DOMAIN d.tables : d.tables[i].name = n

\* The files a user can upload: a file that is no database, or a database
\* with its user tables and the number of rows of the table orders.
Uploads ==
    {[valid |-> FALSE, tables |-> <<>>, rows |-> 0]}
    \cup {d \in {[valid |-> TRUE, tables |-> s, rows |-> r] :
                    s \in Schemas, r \in 0..MaxRows} :
            d.rows = 0 \/ HasTable(d, "orders")}

\* ------------------------------------------------------------ SQLite
\* SELECT name FROM sqlite_master WHERE type='table': one row per table in
\* creation order.  SQLite creates its internal table sqlite_sequence, a row
\* of type 'table' too, when the first AUTOINCREMENT table is created.
RECURSIVE MasterRows(_, _)
MasterRows(decls, seen) ==
    IF decls = <<>> THEN <<>>
    ELSE LET t == Head(decls)
         IN  <<t.name>>
             \o (IF t.autoinc /\ ~seen THEN <<"sqlite_sequence">> ELSE <<>>)
             \o MasterRows(Tail(decls), seen \/ t.autoinc)

sqlite_master(d) == MasterRows(d.tables, FALSE)

\* Whether a table name written bare, as line 24 writes it, is not one
\* identifier: PRAGMA table_info(my table) is a syntax error.
NeedsQuoting(n) == n = "my table"

SequenceCols ==
    <<[name |-> "name", type |-> "", notnull |-> 0, dflt |-> "NULL", pk |-> 0],
      [name |-> "seq", type |-> "", notnull |-> 0, dflt |-> "NULL", pk |-> 0]>>

DeclaredCols(d, n) ==
    IF n = "sqlite_sequence" THEN SequenceCols
    ELSE (CHOOSE t \in {d.tables[i] : i \in DOMAIN d.tables} : t.name = n).cols

\* PRAGMA table_info(n): one row (cid, name, type, notnull, dflt_value, pk)
\* per declared column, in declaration order.
table_info(d, n) ==
    LET cols == DeclaredCols(d, n)
    IN  [i \in DOMAIN cols |->
            <<i - 1, cols[i].name, cols[i].type, cols[i].notnull, cols[i].dflt, cols[i].pk>>]

\* Lines 26-29: the descriptor built from one row of table_info.
ColumnDescriptor(column) ==
    [name |-> column[2], type |-> column[3], notnull |-> column[4],
     default_value |-> column[5], primary_key |-> column[6]]

Ok(d, description, rows) ==
    [ok |-> TRUE, err |-> "", db |-> d, description |-> description, rows |-> rows]
Rejected(d, text) ==
    [ok |-> FALSE, err |-> text, db |-> d, description |-> None, rows |-> 0]

\* cursor.execute(q) on database d: whether the engine accepts the statement,
\* the engine's error text, the database afterwards (a rejected statement
\* changes nothing), and the cursor's description and number of rows.
execute(d, q) ==
    CASE q = <<SelectOrders>> ->
            IF HasTable(d, "orders")
            THEN Ok(d, Some([i \in DOMAIN DeclaredCols(d, "orders") |->
                                DeclaredCols(d, "orders")[i].name]), d.rows)
            ELSE Rejected(d, "no such table: orders")
      [] q = <<InsertOrders>> ->
            IF HasTable(d, "orders")
            THEN Ok([d EXCEPT !.rows = @ + 1], None, 0)
            ELSE Rejected(d, "no such table: orders")
      [] q = <<CreateItems>> ->
            IF HasTable(d, "items")
            THEN Rejected(d, "table items already exists")
            ELSE Ok([d EXCEPT !.tables =
                        Append(@, [name |-> "items", cols |-> ColumnDecls(1),
                                   autoinc |-> FALSE])], None, 0)
      [] OTHER -> Rejected(d, "syntax error")

\* ------------------------------------------------------------ the service
\* What model.generate_content hands back: a reply with no candidates, a
\* candidate without content parts, or a candidate whose first part is text.
Response(kind, text) == [kind |-> kind, text |-> text]

Fenced(body) == <<FENCE, TAG, NL>> \o body \o <<NL, FENCE>>

Responses ==
    {Response("no_candidates", <<>>),
     Response("no_parts", <<>>),
     Response("text", Fenced(<<SelectOrders>>)),
     Response("text", <<Prose, NL>> \o Fenced(<<InsertOrders>>) \o <<NL, Prose>>),
     Response("text", <<SP>> \o Fenced(<<SP, CreateItems, SP>>) \o <<NL>>),
     Response("text", Fenced(<<Selekt>>)),
     Response("text", <<SelectOrders>>),
     Response("text", Fenced(<<SP>>))}

\* ------------------------------------------------------------ messages
SqlError(e) == <<"SQL Error: ", e>>
NotValid == <<"The generated SQL query is not valid.", "">>
NoQuery == <<"Could not generate a valid SQL query.", "">>

\* ------------------------------------------------------------ state
VARIABLES
    pc,          \* where the run is
    upload,      \* the uploaded file
    temp_file,   \* "none", "exists" or "removed"
    conn,        \* "none", "open" or "closed"
    db,          \* the temporary database as the connection of the run sees it
    tables,      \* fetch_metadata: the table names still to inspect
    metadata,    \* fetch_metadata: table name -> column descriptors
    llm_calls,   \* how many times generate_content was called
    response,    \* the reply of the service, None before it
    query,       \* the result of ask_gemini, None or Some(statement)
    validated,   \* "none", or what validate_sql returned: "ok" or "fail"
    submitted,   \* the cursor.execute calls on the candidate statement
    cursor,      \* description and row count left by the last execute
    result,      \* the displayed table, None or Some(columns and row count)
    messages,    \* the st.error messages shown, in order
    err          \* the exception that ended the run, "" if none

vars == <<pc, upload, temp_file, conn, db, tables, metadata, llm_calls, response,
          query, validated, submitted, cursor, result, messages, err>>

NoFile == [valid |-> FALSE, tables |-> <<>>, rows |-> 0]
NoCursor == [description |-> None, rows |-> 0]

Fresh ==
    /\ temp_file = "none" /\ conn = "none" /\ db = NoFile
    /\ tables = <<>> /\ metadata = <<>>
    /\ llm_calls = 0 /\ response = None /\ query = None
    /\ validated = "none" /\ submitted = <<>> /\ cursor = NoCursor
    /\ result = None /\ messages = <<>> /\ err = ""

\* Line 139: the button was pressed with a key, a file and a question.
Init ==
    /\ pc = "save_upload"
    /\ upload \in Uploads
    /\ Fresh

\* ------------------------------------------------------------ the run
\* An exception nothing catches ends the script run where it is raised.
Raise(e) == pc' = "raised" /\ err' = e

\* Python truth of `if query:`: None and the empty text are false.
Truthy(q) == q # None /\ q[1] # <<>>

\* Lines 141-143: the upload is written to a temporary file kept on close.
save_upload ==
    /\ pc = "save_upload"
    /\ temp_file' = "exists"
    /\ db' = upload
    /\ pc' = "connect"
    /\ UNCHANGED <<upload, conn, tables, metadata, llm_calls, response, query,
                   validated, submitted, cursor, result, messages, err>>

\* Lines 10-14 and 146.
connect_to_db ==
    /\ pc = "connect"
    /\ conn' = "open"
    /\ pc' = "fetch_tables"
    /\ UNCHANGED <<upload, temp_file, db, tables, metadata, llm_calls, response,
                   query, validated, submitted, cursor, result, messages, err>>

\* Lines 18-21: the first statement on the connection; a file that is not a
\* database makes it raise sqlite3.DatabaseError.
fetch_tables ==
    /\ pc = "fetch_tables"
    /\ IF db.valid
       THEN /\ tables' = sqlite_master(db)
            /\ metadata' = <<>>
            /\ pc' = "fetch_columns"
            /\ err' = err
       ELSE /\ Raise("DatabaseError: file is not a database")
            /\ UNCHANGED <<tables, metadata>>
    /\ UNCHANGED <<upload, temp_file, conn, db, llm_calls, response, query,
                   validated, submitted, cursor, result, messages>>

\* Lines 22-29, one turn of the loop.
fetch_columns ==
    /\ pc = "fetch_columns"
    /\ tables # <<>>
    /\ LET table_name == Head(tables)
       IN  IF NeedsQuoting(table_name)
           THEN /\ Raise("OperationalError: syntax error")
                /\ UNCHANGED <<tables, metadata>>
           ELSE LET columns == table_info(db, table_name)
                IN  /\ metadata' =
                          [n \in DOMAIN metadata \cup {table_name} |->
                              IF n = table_name
                              THEN [i \in DOMAIN columns |-> ColumnDescriptor(columns[i])]
                              ELSE metadata[n]]
                    /\ tables' = Tail(tables)
                    /\ UNCHANGED <<pc, err>>
    /\ UNCHANGED <<upload, temp_file, conn, db, llm_calls, response, query,
                   validated, submitted, cursor, result, messages>>

\* Lines 31 and 149: the loop is over and fetch_metadata returns.
fetch_metadata_return ==
    /\ pc = "fetch_columns"
    /\ tables = <<>>
    /\ pc' = "ask_gemini"
    /\ UNCHANGED <<upload, temp_file, conn, db, tables, metadata, llm_calls,
                   response, query, validated, submitted, cursor, result, messages, err>>

\* Lines 42-45 and 153: the request is sent, with no timeout argument, and
\* the run waits in generate_content.
ask_gemini ==
    /\ pc = "ask_gemini"
    /\ llm_calls' = llm_calls + 1
    /\ pc' = "generate_content"
    /\ UNCHANGED <<upload, temp_file, conn, db, tables, metadata, response, query,
                   validated, submitted, cursor, result, messages, err>>

\* Line 45, outside the try of lines 47-52: the call fails (no network, a
\* refused key, a deadline of the transport) and its exception propagates.
generate_content_raises ==
    /\ pc = "generate_content"
    /\ Raise("ServiceError")
    /\ UNCHANGED <<upload, temp_file, conn, db, tables, metadata, llm_calls,
                   response, query, validated, submitted, cursor, result, messages>>

\* Lines 47-52: candidates[0] of an empty list is an IndexError and a missing
\* part an IndexError or AttributeError, both caught; a text reply is
\* stripped and handed to trim_sql_query.
ExtractQuery(r) ==
    IF r.kind = "text" THEN trim_sql_query(strip(r.text)) ELSE None

\* Lines 45-52: the service answers and ask_gemini returns.
generate_content_returns ==
    /\ pc = "generate_content"
    /\ \E r \in Responses :
          /\ response' = Some(r)
          /\ query' = ExtractQuery(r)
    /\ pc' = "check_query"
    /\ UNCHANGED <<upload, temp_file, conn, db, tables, metadata, llm_calls,
                   validated, submitted, cursor, result, messages, err>>

\* Lines 155 and 167-168.
no_query ==
    /\ pc = "check_query"
    /\ ~Truthy(query)
    /\ messages' = Append(messages, NoQuery)
    /\ pc' = "close"
    /\ UNCHANGED <<upload, temp_file, conn, db, tables, metadata, llm_calls,
                   response, query, validated, submitted, cursor, result, err>>

\* validate_sql with an except clause that engine errors do not match: the
\* rejection propagates instead of being shown.
validate_sql_uncaught ==
    /\ pc = "check_query"
    /\ Truthy(query)
    /\ LET r == execute(db, query[1])
       IN  /\ submitted' = Append(submitted, <<"validate", query[1]>>)
           /\ db' = r.db
           /\ cursor' = [description |-> r.description, rows |-> r.rows]
           /\ IF r.ok
              THEN /\ validated' = "ok"
                   /\ pc' = "execute"
                   /\ err' = err
              ELSE /\ validated' = validated
                   /\ Raise("OperationalError: " \o r.err)
    /\ UNCHANGED <<upload, temp_file, conn, tables, metadata, llm_calls,
                   response, query, result, messages>>

\* validate_sql that rolls its trial back before it returns.
validate_sql_rollback ==
    /\ pc = "check_query"
    /\ Truthy(query)
    /\ LET r == execute(db, query[1])
       IN  /\ submitted' = Append(submitted, <<"validate", query[1]>>)
           /\ db' = db
           /\ cursor' = [description |-> r.description, rows |-> r.rows]
           /\ IF r.ok
              THEN /\ validated' = "ok"
                   /\ pc' = "execute"
                   /\ UNCHANGED messages
              ELSE /\ validated' = "fail"
                   /\ messages' = Append(messages, SqlError(r.err))
                   /\ pc' = "not_valid"
    /\ UNCHANGED <<upload, temp_file, conn, tables, metadata, llm_calls,
                   response, query, result, err>>

\* Lines 54-61 and 158: the statement is executed; sqlite3.Error is caught,
\* shown with the engine's text, and False is returned.
validate_sql ==
    /\ pc = "check_query"
    /\ Truthy(query)
    /\ LET r == execute(db, query[1])
       IN  /\ submitted' = Append(submitted, <<"validate", query[1]>>)
           /\ db' = r.db
           /\ cursor' = [description |-> r.description, rows |-> r.rows]
           /\ IF r.ok
              THEN /\ validated' = "ok"
                   /\ pc' = "execute"
                   /\ UNCHANGED messages
              ELSE /\ validated' = "fail"
                   /\ messages' = Append(messages, SqlError(r.err))
                   /\ pc' = "not_valid"
    /\ UNCHANGED <<upload, temp_file, conn, tables, metadata, llm_calls,
                   response, query, result, err>>

\* Lines 165-166.
not_valid ==
    /\ pc = "not_valid"
    /\ messages' = Append(messages, NotValid)
    /\ pc' = "close"
    /\ UNCHANGED <<upload, temp_file, conn, db, tables, metadata, llm_calls,
                   response, query, validated, submitted, cursor, result, err>>

\* The pipeline without line 159: the rows are fetched from the cursor the
\* validation left.
execute_query_reuses_cursor ==
    /\ pc = "execute"
    /\ pc' = "fetch"
    /\ UNCHANGED <<upload, temp_file, conn, db, tables, metadata, llm_calls, response,
                   query, validated, submitted, cursor, result, messages, err>>

\* Line 159: the statement is executed a second time, outside any try.
execute_query ==
    /\ pc = "execute"
    /\ LET r == execute(db, query[1])
       IN  /\ submitted' = Append(submitted, <<"execute", query[1]>>)
           /\ db' = r.db
           /\ cursor' = [description |-> r.description, rows |-> r.rows]
           /\ IF r.ok
              THEN pc' = "fetch" /\ err' = err
              ELSE Raise("OperationalError: " \o r.err)
    /\ UNCHANGED <<upload, temp_file, conn, tables, metadata, llm_calls,
                   response, query, validated, result, messages>>

\* Lines 160-163: the rows are fetched and shown under the names taken from
\* cursor.description, which is None for a statement that returns no rows:
\* iterating it is a TypeError.
show_result ==
    /\ pc = "fetch"
    /\ IF cursor.description = None
       THEN /\ Raise("TypeError: 'NoneType' object is not iterable")
            /\ UNCHANGED result
       ELSE /\ result' = Some([columns |-> cursor.description[1], rows |-> cursor.rows])
            /\ pc' = "close"
            /\ err' = err
    /\ UNCHANGED <<upload, temp_file, conn, db, tables, metadata, llm_calls,
                   response, query, validated, submitted, cursor, messages>>

\* Line 171.
close ==
    /\ pc = "close"
    /\ conn' = "closed"
    /\ pc' = "remove"
    /\ UNCHANGED <<upload, temp_file, db, tables, metadata, llm_calls, response,
                   query, validated, submitted, cursor, result, messages, err>>

\* Line 172.
remove ==
    /\ pc = "remove"
    /\ temp_file' = "removed"
    /\ pc' = "done"
    /\ UNCHANGED <<upload, conn, db, tables, metadata, llm_calls, response,
                   query, validated, submitted, cursor, result, messages, err>>

\* The steps the script takes by itself.
Step ==
    \/ save_upload
    \/ connect_to_db
    \/ fetch_tables
    \/ fetch_columns
    \/ fetch_metadata_return
    \/ ask_gemini
    \/ no_query
    \/ validate_sql
    \/ not_valid
    \/ execute_query
    \/ show_result
    \/ close
    \/ remove

\* The steps that wait for the service.
Service ==
    \/ generate_content_raises
    \/ generate_content_returns

Next == Step \/ Service

Spec == Init /\ [][Next]_vars

\* The script runs on while it can; nothing makes the service answer.
FairSpec == Spec /\ WF_vars(Step)

\* The run is over: the cleanup is done, or an exception ended the script.
Terminal == pc \in {"done", "raised"}

\* ------------------------------------------------------------ trim_sql_query alone
Alphabet == {FENCE, TAG, NL, SP, SelectOrders}
Texts == UNION {[1..n -> Alphabet] : n \in 0..MaxLen}

\* A reply text of at most MaxLen tokens is about to be trimmed.
TrimInit ==
    /\ pc = "trim"
    /\ upload = NoFile
    /\ response \in {Some(Response("text", t)) : t \in Texts}
    /\ temp_file = "none" /\ conn = "none" /\ db = NoFile
    /\ tables = <<>> /\ metadata = <<>>
    /\ llm_calls = 0 /\ query = None
    /\ validated = "none" /\ submitted = <<>> /\ cursor = NoCursor
    /\ result = None /\ messages = <<>> /\ err = ""

\* Lines 33-38 applied to the text.
trim ==
    /\ pc = "trim"
    /\ query' = trim_sql_query(response[1].text)
    /\ pc' = "trimmed"
    /\ UNCHANGED <<upload, temp_file, conn, db, tables, metadata, llm_calls,
                   response, validated, submitted, cursor, result, messages, err>>

TrimSpec == TrimInit /\ [][trim]_vars

\* ------------------------------------------------------------ claims

\* C1: every terminal state of a run that opened a connection and created a
\* temporary file is reached with the connection closed and the file removed.
C1_TerminalReleased ==
    (Terminal /\ conn # "none" /\ temp_file # "none")
        => (conn = "closed" /\ temp_file = "removed")

\* The service call failed: it raised, or its reply has no usable text part.
ServiceFailed ==
    \/ err = "ServiceError"
    \/ response # None /\ response[1].kind # "text"

\* C2: when the service call fails, ask_gemini returns None and the run ends
\* with the no-query message; the failure is never raised out of the generator.
C2_ServiceFailureIsNoQuery ==
    ServiceFailed =>
        /\ pc # "raised"
        /\ query = None
        /\ Terminal => messages = <<NoQuery>>

\* The candidate statement is one the engine rejects on the uploaded database.
EngineRejects == Truthy(query) /\ ~execute(upload, query[1]).ok

Validating == pc = "check_query"

\* C3: for a statement the engine rejects, validate_sql returns failure with a
\* message carrying the engine's error text, no error escapes, and the run
\* halts after the invalid-query message without executing for results.
C3_RejectedStatementHalts ==
    (EngineRejects /\ ~Validating) =>
        /\ validated = "fail"
        /\ pc \in {"not_valid", "close", "remove", "done"}
        /\ err = ""
        /\ messages = IF pc = "not_valid"
                      THEN <<SqlError(execute(upload, query[1]).err)>>
                      ELSE <<SqlError(execute(upload, query[1]).err), NotValid>>
        /\ submitted = << <<"validate", query[1]>> >>
        /\ result = None

C3_Witness ==
    pc = "done" /\ query = Some(<<Selekt>>) /\ validated = "fail" /\ EngineRejects

\* The executor stage failed after a successful validation.
ExecutorFailed == validated = "ok" /\ Terminal /\ result = None

\* C4: a failure of the executor stage after a successful validation is
\* reported as a validation failure is: the engine error text and the
\* invalid-query message, the run ending in a handled state.
C4_ExecutorFailureReportedAsInvalid ==
    ExecutorFailed =>
        /\ pc = "done"
        /\ err = ""
        /\ Len(messages) = 2
        /\ messages[1][1] = SqlError("")[1]
        /\ messages[2] = NotValid

\* A fenced block tagged sql opens at token i: the fence, the tag, the end of
\* the line.
OpensSqlBlock(s, i) ==
    i + 2 <= Len(s) /\ s[i] = FENCE /\ s[i + 1] = TAG /\ s[i + 2] = NL

\* The block opened at i is closed by the fence at k, a fence that starts a
\* line after the opening line.
ClosesBlock(s, i, k) ==
    i + 3 <= k /\ k <= Len(s) /\ s[k] = FENCE /\ s[k - 1] = NL

\* The trimmed interior of the first closed block tagged sql, None without one.
FirstSqlBlock(s) ==
    LET opens == {i \in 1..Len(s) :
                    OpensSqlBlock(s, i) /\ \E k \in 1..Len(s) : ClosesBlock(s, i, k)}
    IN  IF opens = {} THEN None
        ELSE LET i == Min(opens)
                 k == Min({c \in 1..Len(s) : ClosesBlock(s, i, c)})
             IN  Some(strip(SubSeq(s, i + 3, k - 2)))

\* C5: trim_sql_query returns the trimmed interior of the first closed fenced
\* block tagged sql, and None exactly when the text holds no such block.
C5_TrimReturnsFirstSqlBlock ==
    pc = "trimmed" => query = FirstSqlBlock(response[1].text)

UserTables(d) == {d.tables[i].name : i \in DOMAIN d.tables}

\* C6: fetch_metadata returns one entry per user table, none for a system
\* table, each with the columns of the table in declaration order.
C6_MetadataIsUserTables ==
    pc = "ask_gemini" =>
        /\ DOMAIN metadata = UserTables(db)
        /\ \A n \in DOMAIN metadata :
              [i \in DOMAIN metadata[n] |-> metadata[n][i].name]
                  = [i \in DOMAIN DeclaredCols(db, n) |-> DeclaredCols(db, n)[i].name]

\* C7: the call of the service is bounded by a timeout: a run waiting for the
\* service reaches a terminal state even when the service never answers.
C7_ServiceCallTerminates == (pc = "generate_content") ~> Terminal

GeneratedEmpty == Terminal /\ response # None /\ ~Truthy(query)
ValidatedFail == Terminal /\ validated = "fail"

\* C8: each terminal failure state ends the run with its own message, the
\* no-query message differing from the invalid-query one, and nothing is
\* retried: the service is called at most once in a run.
C8_FailureMessagesNoRetry ==
    /\ GeneratedEmpty => messages = <<NoQuery>>
    /\ ValidatedFail => (messages # <<>> /\ messages[Len(messages)] = NotValid)
    /\ ExecutorFailed => messages # <<>>
    /\ NoQuery # NotValid
    /\ llm_calls <= 1

\* The step in which validate_sql runs the candidate statement.
ValidateStep == Validating /\ Truthy(query) /\ pc' # pc

\* C9 as stated: validating any candidate statement leaves the database seen
\* through the connection as it was.
C9_ValidationNeverMutates == [][ValidateStep => db' = db]_vars

\* C9 amended: validating a SELECT, or a statement the engine rejects, leaves
\* the database as it was; an accepted data-modifying statement is applied
\* by the validation trial itself.
C9_ValidationMutatesOnlyByAcceptedWrites ==
    [][ValidateStep =>
          IF query = Some(<<SelectOrders>>) \/ validated' = "fail"
          THEN db' = db
          ELSE db' # db /\ db' = execute(db, query[1]).db]_vars

C9_Witness ==
    pc = "execute" /\ query = Some(<<SelectOrders>>) /\ validated = "ok" /\ db = upload

Finished == pc \in {"close", "remove", "done", "raised"}

\* C10: the candidate statement is submitted in stage order a fixed number of
\* times: never without a query, once when validation fails, twice (the
\* validation, then the execution for results) when it succeeds, and never
\* for results without a successful validation before.
C10_SubmissionCounts ==
    /\ submitted \in
          {<<>>} \cup
          (IF Truthy(query)
           THEN {<< <<"validate", query[1]>> >>,
                 << <<"validate", query[1]>>, <<"execute", query[1]>> >>}
           ELSE {})
    /\ Len(submitted) = 2 => validated = "ok"
    /\ (Finished /\ ~Truthy(query)) => submitted = <<>>
    /\ (Finished /\ validated = "fail") => Len(submitted) = 1
    /\ (Finished /\ validated = "ok") => Len(submitted) = 2

C10_Witness ==
    pc = "done" /\ validated = "ok" /\ Len(submitted) = 2 /\ result # None

====
